---------------------------- MODULE Spec2Model ----------------------------
(***************************************************************************)
(* Model of the annotation pipeline of elk_project:                        *)
(*   scripts/load_to_mongo.py   upsert_records, ensure_unique_index        *)
(*   scripts/nlp_pipeline.py    process_from_csv, process_from_mongo       *)
(*   scripts/mongo_to_es.py     the bulk sync into the search index        *)
(* The MongoDB collection is a sequence of documents in natural            *)
(* (insertion) order; a replace keeps the document's position and _id.     *)
(***************************************************************************)
EXTENDS Integers, Sequences, FiniteSets, TLC

(***************************************************************************)
(* Bounds of the model.                                                    *)
(***************************************************************************)
MaxInit == 2
MaxRows == 2
MaxRuns == 2
MaxFaults == 1
MaxSample == 2
MaxIdPost == 2
MaxConcInit == 2
MaxConcRows == 1
MaxSyncDocs == 3
MaxSyncRuns == 2
MaxBad == 1
ChunkSize == 2

(***************************************************************************)
(* Values.                                                                 *)
(***************************************************************************)
\* Python None, and a field that a document does not have
NULL == -1

IdPosts == {NULL} \cup (1..MaxIdPost)
Textes == {"a", "b"}

\* the rows of the cleaned CSV: df[["id_post", "texte", ...]]
Records == [id_post : IdPosts, texte : Textes]

\* the rows load_to_mongo reads: preprocess.py gives every row an id_post
LoaderRecords == {r \in Records : r.id_post # NULL}

\* the annotation fields written by load_to_mongo.upsert_records
LoaderAnn == {"language", "sentiment", "sentiment_scores"}
\* the annotation fields written by nlp_pipeline
FullAnn == {"language", "sentiment", "sentiment_scores", "sentiment_tokens"}

\* annotations found on documents that were stored before the run
InitAnns == {{}, {"language"}}

Min2(a, b) == IF a < b THEN a ELSE b

(***************************************************************************)
(* The store: the operations of a pymongo collection the scripts use.      *)
(***************************************************************************)
\* doc.get(f) / r.get(f): only id_post and texte are ever stored as keys
Get(d, f) ==
    CASE f = "id_post" -> d.id_post
      [] f = "texte" -> d.texte
      [] OTHER -> NULL

\* a query {f: v}: equality, and {f: None} also matches a missing field
Matches(d, q) ==
    CASE q.f = "id_post" -> d.id_post = q.v
      [] q.f = "texte" -> d.texte = q.v
      [] OTHER -> q.v = NULL

\* the positions of the documents a query selects, in natural order
Found(c, q) == {i \in DOMAIN c : Matches(c[i], q)}

SetMin(S) == CHOOSE x \in S : \A y \in S : x <= y

\* a unique index on f admits at most one document per value of f,
\* a missing value counting as null
UniqueOk(c, f) ==
    \A i, j \in DOMAIN c : i # j => Get(c[i], f) # Get(c[j], f)

AllUniqueOk(c, uidx) == \A f \in uidx : UniqueOk(c, f)

\* coll.replace_one(q, r, upsert=True): replaces the first match, keeping
\* its _id, or inserts; E11000 (ok = FALSE) when a unique index rejects it
ReplaceOne(c, uidx, q, r, ann, nid) ==
    LET hits == Found(c, q)
        new(id) == [_id |-> id, id_post |-> r.id_post, texte |-> r.texte,
                    ann |-> ann]
        c2 == IF hits # {}
              THEN [c EXCEPT ![SetMin(hits)] = new(c[SetMin(hits)]._id)]
              ELSE Append(c, new(nid))
    IN  IF AllUniqueOk(c2, uidx)
        THEN [coll |-> c2, ok |-> TRUE, inserted |-> hits = {}]
        ELSE [coll |-> c, ok |-> FALSE, inserted |-> FALSE]

\* the subsequence of c at the positions in keep
RECURSIVE Pick(_, _, _)
Pick(c, keep, i) ==
    IF i > Len(c) THEN <<>>
    ELSE IF i \in keep THEN <<c[i]>> \o Pick(c, keep, i + 1)
    ELSE Pick(c, keep, i + 1)

\* the $group/$match pipeline: the positions, beyond the first, of the
\* documents that share a non-null value of f
Duplicates(c, f) ==
    {i \in DOMAIN c : Get(c[i], f) # NULL
                      /\ \E j \in 1..(i - 1) : Get(c[j], f) = Get(c[i], f)}

\* ensure_unique_index(coll, field); aggOk = FALSE is an aggregate() that
\* raised, in which case no duplicate is removed
ensure_unique_index(c, uidx, f, aggOk) ==
    LET remove == IF aggOk THEN Duplicates(c, f) ELSE {}
        c2 == Pick(c, (DOMAIN c) \ remove, 1)
    IN  [coll |-> c2,
         removed |-> Cardinality(remove),
         uidx |-> IF f \in uidx \/ UniqueOk(c2, f) THEN uidx \cup {f}
                  ELSE uidx]

(***************************************************************************)
(* State.                                                                  *)
(***************************************************************************)
VARIABLES
    coll,           \* db[COLLECTION_NAME]: the stored documents
    unique_index,   \* the fields that carry a unique index
    plain_index,    \* the fields that carry a non-unique index
    next_id,        \* the _id the store gives to the next inserted document
    pc,             \* where the running script is
    prog,           \* the script that runs or ran last
    by,             \* upsert_records: the upsert key field
    todo,           \* the rows the loop still has to visit
    count,          \* the local `count` of the upsert loops
    failures,       \* store writes of this run that raised
    closed,         \* client.close() was called
    force,          \* process_from_mongo: the force flag
    sample,         \* process_from_mongo: the sample cap, 0 for None
    cursor,         \* process_from_mongo: position of the cursor
    total,          \* process_from_mongo: the local `total`
    updated,        \* process_from_mongo: the local `updated`
    fetched,        \* process_from_mongo: the document read, not yet updated
    runs,           \* history: the script runs started
    faults,         \* history: the store calls that failed transiently
    coll0,          \* history: the store when the scan opened its cursor
    written,        \* history: the _ids the scan wrote annotations to
    afterClean,     \* history: the scan follows a complete scan directly
    cleanScan,      \* history: the last run was a complete scan
    lastUp,         \* history: the last upsert the store executed
    collPrev,       \* history: the store before the last upsert
    rep,            \* history: the last upsert repeated the one before
    keyIds,         \* history: the id_post values used as upsert key
    keyTextes,      \* history: the texte values used as upsert key
    keyOther,       \* history: an upsert used a key on another field
    fromEmpty,      \* history: the store was empty at the start
    eui,            \* history: the last two ensure_unique_index calls
    sync_pc,        \* mongo_to_es: where the sync script is
    exit_code,      \* mongo_to_es: the exit status, NULL while running
    es_up,          \* the search index answers
    es_index,       \* INDEX_NAME exists in the search index
    es_docs,        \* the documents of the search index
    rejected,       \* the _ids whose index action the search index rejects
    malformed,      \* the _ids whose action cannot be serialized
    pos,            \* mongo_to_es: position of gen_actions in the store
    n_ok,           \* mongo_to_es: the actions helpers.bulk saw succeed
    success,        \* mongo_to_es: the `success` reported, NULL if none
    errors,         \* mongo_to_es: the size of the error sample reported
    sent,           \* history: the bulk requests submitted
    created,        \* history: indices.create was called
    now,            \* the clock: the number of the sync run
    es0,            \* history: the search index when the sync run began
    arg,            \* the argument of the function under call
    ret,            \* what the function returned
    fpc,            \* the function under call, and whether it returned
    procs,          \* the concurrent loaders: their locals and position
    commits         \* history: the upserts the store committed, in order

storeVars == <<coll, unique_index, plain_index, next_id>>
runVars == <<pc, prog, by, todo, count, failures, closed>>
scanVars == <<force, sample, cursor, total, updated, fetched>>
histVars == <<runs, faults, coll0, written, afterClean, cleanScan, lastUp,
              collPrev, rep, keyIds, keyTextes, keyOther, fromEmpty,
              eui>>
syncVars == <<sync_pc, exit_code, es_up, es_index, es_docs, rejected,
              malformed, pos, n_ok, success, errors, sent, created, now, es0>>
concVars == <<procs, commits>>
fnVars == <<arg, ret, fpc>>
vars == <<storeVars, runVars, scanVars, histVars, syncVars, concVars,
          fnVars>>

(***************************************************************************)
(* The documents a collection may hold before any script of this           *)
(* repository runs: _ids are distinct and no index exists yet.             *)
(***************************************************************************)
InitDocs(i) == [_id : {i}, id_post : IdPosts, texte : Textes, ann : InitAnns]

InitialStores ==
    UNION {{c \in [1..n -> UNION {InitDocs(i) : i \in 1..MaxInit}] :
               \A i \in 1..n : c[i]._id = i} : n \in 0..MaxInit}

NoUpsert == <<>>

\* the locals of process_from_mongo are gone once another script starts
NoScan ==
    /\ force' = FALSE /\ sample' = 0 /\ cursor' = 0 /\ total' = 0
    /\ updated' = 0 /\ coll0' = <<>> /\ written' = {}
    /\ afterClean' = FALSE /\ fetched' = <<>>

\* history of ensure_unique_index: quiet = no write reached the store since
\* the last call, again = the last call followed another one directly,
\* removed = the documents the last call deleted
NoEui == [quiet |-> FALSE, again |-> FALSE, removed |-> 0]

NoRepeat == lastUp' = NoUpsert /\ rep' = FALSE /\ collPrev' = <<>>
Ended == {"idle", "done", "aborted", "fatal"}
ByValues == {"text", "texte", "id_post"}
Programs == {"upsert_records", "process_from_csv", "process_from_mongo"}

SyncIdle ==
    /\ sync_pc = "off" /\ exit_code = NULL /\ es_up = TRUE
    /\ es_index = FALSE /\ es_docs = {} /\ rejected = {} /\ malformed = {}
    /\ pos = 0 /\ n_ok = 0 /\ success = NULL /\ errors = 0 /\ sent = 0
    /\ created = FALSE /\ now = 0 /\ es0 = [index |-> FALSE, docs |-> {}]

ConcIdle == procs = <<>> /\ commits = <<>>

FnIdle == arg = <<>> /\ ret = <<>> /\ fpc = "off"

PipeIdle ==
    /\ pc = "idle" /\ prog = "none" /\ by = "none" /\ todo = 0
    /\ count = 0 /\ failures = 0 /\ closed = FALSE
    /\ force = FALSE /\ sample = 0 /\ cursor = 0 /\ total = 0 /\ updated = 0
    /\ fetched = <<>>
    /\ runs = 0 /\ faults = 0 /\ coll0 = <<>> /\ written = {}
    /\ afterClean = FALSE /\ cleanScan = FALSE
    /\ lastUp = NoUpsert /\ collPrev = <<>> /\ rep = FALSE
    /\ keyIds = {} /\ keyTextes = {} /\ keyOther = FALSE
    /\ eui = NoEui

Init ==
    /\ coll \in InitialStores
    /\ unique_index = {} /\ plain_index = {}
    /\ next_id = Len(coll) + 1
    /\ fromEmpty = (coll = <<>>)
    /\ PipeIdle
    /\ SyncIdle
    /\ FnIdle
    /\ ConcIdle

(***************************************************************************)
(* connect_mongo: server_info() raises when the store does not answer;     *)
(* no script catches it, so the run ends before any work.                  *)
(***************************************************************************)
connect_mongo_fails(p) ==
    /\ pc \in Ended /\ runs < MaxRuns /\ faults < MaxFaults
    /\ pc' = "fatal" /\ prog' = p
    /\ runs' = runs + 1 /\ faults' = faults + 1
    /\ by' = "none" /\ todo' = 0 /\ count' = 0 /\ failures' = 0
    /\ closed' = FALSE
    /\ NoScan /\ NoRepeat
    /\ UNCHANGED <<storeVars, cleanScan, keyIds, keyTextes, keyOther,
                   fromEmpty, eui, syncVars, concVars, fnVars>>

(***************************************************************************)
(* load_to_mongo.upsert_records(df, by)                                    *)
(***************************************************************************)
\* history: the key values of the upserts into a store that began empty
Track(q) ==
    IF ~fromEmpty THEN UNCHANGED <<keyIds, keyTextes, keyOther>>
    ELSE /\ keyIds' = IF q.f = "id_post" THEN keyIds \cup {q.v} ELSE keyIds
         /\ keyTextes' = IF q.f = "texte" THEN keyTextes \cup {q.v}
                         ELSE keyTextes
         /\ keyOther' = (keyOther \/ q.f \notin {"id_post", "texte"})

\* key = {by: r.get(by)}; int() leaves an integer id_post as it is
LoaderKey(b, r) == [f |-> b, v |-> Get(r, b)]

\* lines 85-97: connect, ensure_unique_index(coll, "id_post"), the plain
\* index on "text" unless by is id_post, and the records of the frame
upsert_records_begin(b, rows, aggOk) ==
    /\ pc \in Ended /\ runs < MaxRuns
    /\ aggOk \/ faults < MaxFaults
    /\ LET e == ensure_unique_index(coll, unique_index, "id_post", aggOk)
       IN  /\ coll' = e.coll
           /\ unique_index' = e.uidx
           /\ eui' = [quiet |-> TRUE, again |-> eui.quiet,
                      removed |-> e.removed]
    /\ plain_index' = IF b # "id_post" THEN plain_index \cup {"text"}
                      ELSE plain_index
    /\ pc' = "upsert_records" /\ prog' = "upsert_records"
    /\ by' = b /\ todo' = rows /\ count' = 0 /\ failures' = 0
    /\ closed' = FALSE
    /\ runs' = runs + 1
    /\ faults' = IF aggOk THEN faults ELSE faults + 1
    /\ cleanScan' = FALSE
    /\ NoScan /\ NoRepeat
    /\ UNCHANGED <<next_id, keyIds, keyTextes, keyOther, fromEmpty, syncVars,
                   concVars, fnVars>>

\* lines 98-114: one iteration of the loop; wOk = FALSE is a replace_one
\* that raised for a reason of the transport
upsert_records_row(r, wOk) ==
    /\ pc = "upsert_records" /\ todo > 0
    /\ wOk \/ faults < MaxFaults
    /\ LET q == LoaderKey(by, r)
           res == ReplaceOne(coll, unique_index, q, r, LoaderAnn, next_id)
           ok == wOk /\ res.ok
       IN  /\ coll' = IF ok THEN res.coll ELSE coll
           /\ next_id' = IF ok /\ res.inserted THEN next_id + 1 ELSE next_id
           /\ count' = IF ok THEN count + 1 ELSE count
           /\ failures' = IF ok THEN failures ELSE failures + 1
           /\ lastUp' = IF wOk THEN <<r, q.f, prog>> ELSE NoUpsert
           /\ rep' = (wOk /\ lastUp = <<r, q.f, prog>>)
           /\ collPrev' = IF wOk /\ lastUp = <<r, q.f, prog>> THEN coll
                          ELSE <<>>
           /\ Track(q)
           /\ eui' = IF ok THEN NoEui ELSE eui
    /\ todo' = todo - 1
    /\ faults' = IF wOk THEN faults ELSE faults + 1
    /\ UNCHANGED <<unique_index, plain_index, pc, prog, by, closed,
                   scanVars, runs, coll0, written, afterClean, cleanScan,
                   fromEmpty, syncVars, concVars, fnVars>>

\* lines 116-117: the count is printed and the client closed
upsert_records_end ==
    /\ pc = "upsert_records" /\ todo = 0
    /\ pc' = "done" /\ closed' = TRUE
    /\ NoRepeat
    /\ UNCHANGED <<storeVars, prog, by, todo, count, failures, scanVars,
                   runs, faults, coll0, written, afterClean, cleanScan,
                   keyIds, keyTextes, keyOther, fromEmpty, eui, syncVars,
                   concVars, fnVars>>

(***************************************************************************)
(* nlp_pipeline.process_from_csv(sid, force, sample, upsert)               *)
(***************************************************************************)
\* line 149: id_post when the record has one, texte otherwise
CsvKey(r) ==
    IF r.id_post # NULL THEN [f |-> "id_post", v |-> r.id_post]
    ELSE [f |-> "texte", v |-> r.texte]

\* df.head(sample) when a sample is given
df_head(rows, smp) == IF smp # 0 THEN Min2(rows, smp) ELSE rows

\* lines 118-146: the frame is read and annotated; without upsert the
\* results are returned, with upsert the store is connected
process_from_csv_begin(rows, smp, ups) ==
    /\ pc \in Ended /\ runs < MaxRuns
    /\ pc' = IF ups THEN "process_from_csv" ELSE "done"
    /\ prog' = "process_from_csv"
    /\ by' = "none" /\ todo' = df_head(rows, smp) /\ count' = 0
    /\ failures' = 0 /\ closed' = FALSE
    /\ runs' = runs + 1
    /\ cleanScan' = IF ups THEN FALSE ELSE cleanScan
    /\ NoScan /\ NoRepeat
    /\ UNCHANGED <<storeVars, faults, keyIds, keyTextes, keyOther, fromEmpty,
                   eui, syncVars, concVars, fnVars>>

\* lines 148-151: one iteration; replace_one is not guarded, so a write
\* that raises leaves the function (and main) with the client open
process_from_csv_row(r, wOk) ==
    /\ pc = "process_from_csv" /\ todo > 0
    /\ wOk \/ faults < MaxFaults
    /\ LET q == CsvKey(r)
           res == ReplaceOne(coll, unique_index, q, r, FullAnn, next_id)
           ok == wOk /\ res.ok
       IN  /\ coll' = IF ok THEN res.coll ELSE coll
           /\ next_id' = IF ok /\ res.inserted THEN next_id + 1 ELSE next_id
           /\ count' = IF ok THEN count + 1 ELSE count
           /\ failures' = IF ok THEN failures ELSE failures + 1
           /\ pc' = IF ok THEN pc ELSE "aborted"
           /\ lastUp' = IF wOk THEN <<r, q.f, prog>> ELSE NoUpsert
           /\ rep' = (wOk /\ lastUp = <<r, q.f, prog>>)
           /\ collPrev' = IF wOk /\ lastUp = <<r, q.f, prog>> THEN coll
                          ELSE <<>>
           /\ Track(q)
           /\ eui' = IF ok THEN NoEui ELSE eui
    /\ todo' = todo - 1
    /\ faults' = IF wOk THEN faults ELSE faults + 1
    /\ UNCHANGED <<unique_index, plain_index, prog, by, closed, scanVars,
                   runs, coll0, written, afterClean, cleanScan, fromEmpty,
                   syncVars, concVars, fnVars>>

\* lines 152-155: the client is closed and the count logged
process_from_csv_end ==
    /\ pc = "process_from_csv" /\ todo = 0
    /\ pc' = "done" /\ closed' = TRUE
    /\ NoRepeat
    /\ UNCHANGED <<storeVars, prog, by, todo, count, failures, scanVars,
                   runs, faults, coll0, written, afterClean, cleanScan,
                   keyIds, keyTextes, keyOther, fromEmpty, eui, syncVars,
                   concVars, fnVars>>

(***************************************************************************)
(* nlp_pipeline.process_from_mongo(sid, force, batch, sample)              *)
(***************************************************************************)
\* a scan that looks at `language` only
need_language_only(fc, doc) == fc \/ "language" \notin doc.ann

\* line 170
need(fc, doc) ==
    fc \/ "language" \notin doc.ann \/ "sentiment" \notin doc.ann

\* line 168: `if sample and total > sample`
over_sample(smp, tot) == smp # 0 /\ tot > smp

\* lines 176-183: update_one({"_id": id}, {"$set": update})
UpdateOne(c, id) ==
    [i \in DOMAIN c |->
        IF c[i]._id = id THEN [c[i] EXCEPT !.ann = c[i].ann \cup FullAnn]
        ELSE c[i]]

\* lines 159-165: connect, open the cursor, zero the counters
process_from_mongo_begin(fc, smp) ==
    /\ pc \in Ended /\ runs < MaxRuns
    /\ pc' = "process_from_mongo" /\ prog' = "process_from_mongo"
    /\ force' = fc /\ sample' = smp
    /\ cursor' = 1 /\ total' = 0 /\ updated' = 0 /\ fetched' = <<>>
    /\ by' = "none" /\ todo' = 0 /\ count' = 0 /\ failures' = 0
    /\ closed' = FALSE
    /\ runs' = runs + 1
    /\ coll0' = coll /\ written' = {}
    /\ afterClean' = cleanScan /\ cleanScan' = FALSE
    /\ NoRepeat /\ eui' = NoEui
    /\ UNCHANGED <<storeVars, faults, keyIds, keyTextes, keyOther,
                   fromEmpty, syncVars, concVars, fnVars>>

\* lines 166-186: one document of the cursor; wOk = FALSE is an update_one
\* that raised
process_from_mongo_doc(wOk) ==
    /\ pc = "process_from_mongo" /\ cursor <= Len(coll)
    /\ LET doc == coll[cursor]
           tot == total + 1
       IN  /\ total' = tot
           /\ IF over_sample(sample, tot)
              THEN \* break, then lines 188-190
                   /\ wOk
                   /\ pc' = "done" /\ closed' = TRUE
                   /\ UNCHANGED <<coll, cursor, updated, failures, written,
                                  faults>>
              ELSE IF ~need(force, doc)
              THEN \* continue
                   /\ wOk
                   /\ cursor' = cursor + 1
                   /\ UNCHANGED <<coll, pc, closed, updated, failures,
                                  written, faults>>
              ELSE /\ wOk \/ faults < MaxFaults
                   /\ cursor' = cursor + 1
                   /\ coll' = IF wOk THEN UpdateOne(coll, doc._id) ELSE coll
                   /\ updated' = IF wOk THEN updated + 1 ELSE updated
                   /\ written' = IF wOk THEN written \cup {doc._id}
                                 ELSE written
                   /\ failures' = IF wOk THEN failures ELSE failures + 1
                   /\ faults' = IF wOk THEN faults ELSE faults + 1
                   /\ UNCHANGED <<pc, closed>>
    /\ UNCHANGED <<unique_index, plain_index, next_id, prog, by, todo,
                   count, force, sample, fetched, runs, coll0, afterClean,
                   cleanScan, lastUp, collPrev, rep, keyIds, keyTextes,
                   keyOther, fromEmpty, eui, syncVars, concVars, fnVars>>

\* the cursor is exhausted: lines 188-190
process_from_mongo_end ==
    /\ pc = "process_from_mongo" /\ cursor > Len(coll)
    /\ pc' = "done" /\ closed' = TRUE
    /\ cleanScan' = (sample = 0 /\ failures = 0)
    /\ UNCHANGED <<storeVars, prog, by, todo, count, failures, scanVars,
                   runs, faults, coll0, written, afterClean, lastUp,
                   collPrev, rep, keyIds, keyTextes, keyOther, fromEmpty,
                   eui, syncVars, concVars, fnVars>>

Next ==
    \/ \E p \in Programs : connect_mongo_fails(p)
    \/ \E b \in ByValues, rows \in 0..MaxRows, aggOk \in BOOLEAN :
          upsert_records_begin(b, rows, aggOk)
    \/ \E r \in LoaderRecords, wOk \in BOOLEAN : upsert_records_row(r, wOk)
    \/ upsert_records_end
    \/ \E rows \in 0..MaxRows, smp \in 0..MaxSample, ups \in BOOLEAN :
          process_from_csv_begin(rows, smp, ups)
    \/ \E r \in Records, wOk \in BOOLEAN : process_from_csv_row(r, wOk)
    \/ process_from_csv_end
    \/ \E fc \in BOOLEAN, smp \in 0..MaxSample :
          process_from_mongo_begin(fc, smp)
    \/ \E wOk \in BOOLEAN : process_from_mongo_doc(wOk)
    \/ process_from_mongo_end

Spec == Init /\ [][Next]_vars

(***************************************************************************)
(* The scan alone, on the collections it may find: documents left by the   *)
(* loader (LoaderAnn), by the pipeline (FullAnn) or by neither.            *)
(***************************************************************************)
ScanAnns == InitAnns \cup {LoaderAnn, FullAnn}

ScanDocs(i) == [_id : {i}, id_post : IdPosts, texte : Textes, ann : ScanAnns]

ScanStores ==
    UNION {{c \in [1..n -> UNION {ScanDocs(i) : i \in 1..MaxInit}] :
               \A i \in 1..n : c[i]._id = i} : n \in 0..MaxInit}

InitScan ==
    /\ coll \in ScanStores
    /\ unique_index = {} /\ plain_index = {}
    /\ next_id = Len(coll) + 1
    /\ fromEmpty = (coll = <<>>)
    /\ PipeIdle
    /\ SyncIdle
    /\ FnIdle
    /\ ConcIdle

NextScan ==
    \/ connect_mongo_fails("process_from_mongo")
    \/ \E fc \in BOOLEAN, smp \in 0..MaxSample :
          process_from_mongo_begin(fc, smp)
    \/ \E wOk \in BOOLEAN : process_from_mongo_doc(wOk)
    \/ process_from_mongo_end

SpecScan == InitScan /\ [][NextScan]_vars

ScanDone == pc = "done" /\ prog = "process_from_mongo"

Ids(c) == {c[i]._id : i \in DOMAIN c}

LackingIds(c) ==
    {c[i]._id : i \in {j \in DOMAIN c : "language" \notin c[j].ann
                                        \/ "sentiment" \notin c[j].ann}}

\* C3: a complete scan (no sample cap, no failed write) annotates exactly
\* the documents that lacked `language` or `sentiment` (every document when
\* forced), leaves the others as they were, returns scanned = the number of
\* stored documents and updated = the number annotated; a non-forced scan
\* directly after a complete scan updates nothing.
C3_ScanSelection ==
    (ScanDone /\ sample = 0 /\ failures = 0) =>
        /\ total = Len(coll0)
        /\ written = IF force THEN Ids(coll0) ELSE LackingIds(coll0)
        /\ updated = Cardinality(written)
        /\ DOMAIN coll = DOMAIN coll0
        /\ \A i \in DOMAIN coll0 :
              coll[i] = IF coll0[i]._id \in written
                        THEN [coll0[i] EXCEPT !.ann = FullAnn]
                        ELSE coll0[i]
        /\ (afterClean /\ ~force) => updated = 0

\* a non-forced complete scan that annotated some documents and skipped others
C3_Witness ==
    /\ ScanDone /\ sample = 0 /\ failures = 0 /\ ~force
    /\ updated >= 1 /\ updated < total

\* C4: with sample = N > 0 the scan returns scanned = min(N, M), updated <=
\* scanned, and leaves the documents beyond the first N as they were.
C4_SampleCap ==
    (ScanDone /\ sample > 0) =>
        /\ total = Min2(sample, Len(coll0))
        /\ updated <= total
        /\ \A i \in DOMAIN coll0 : i > sample => coll[i] = coll0[i]

(***************************************************************************)
(* Properties of the upsert loops and of ensure_unique_index.              *)
(***************************************************************************)
\* the query of the last upsert, from the history
LastKey == [f |-> lastUp[2], v |-> Get(lastUp[1], lastUp[2])]

AnnOf(p) == IF p = "upsert_records" THEN LoaderAnn ELSE FullAnn

\* the second of two equal upserts in a row leaves the store as the first
\* left it
TwiceIsOnce == rep => coll = collPrev

\* C1: after a record was upserted twice in a row under the same key (no
\* store call having failed for a reason of the transport), the
\* store is as after the first upsert, exactly one document matches the
\* key, and that document holds the values of the record and nothing else.
C1_UpsertIdempotent ==
    (rep /\ faults = 0) =>
        /\ coll = collPrev
        /\ Cardinality(Found(coll, LastKey)) = 1
        /\ \A i \in Found(coll, LastKey) :
              /\ coll[i].id_post = lastUp[1].id_post
              /\ coll[i].texte = lastUp[1].texte
              /\ coll[i].ann = AnnOf(lastUp[3])

CountWhere(c, f, v) == Cardinality({i \in DOMAIN c : Get(c[i], f) = v})

\* C2: a store that began empty and received only upserts holds exactly one
\* document per key value upserted, and all upserts used the same identity
\* field, id_post or texte.
C2_OnePerKey ==
    (fromEmpty /\ faults = 0) =>
        /\ ~keyOther
        /\ keyIds = {} \/ keyTextes = {}
        /\ \A v \in keyIds : CountWhere(coll, "id_post", v) = 1
        /\ \A v \in keyTextes : CountWhere(coll, "texte", v) = 1
        /\ Len(coll) = Cardinality(keyIds) + Cardinality(keyTextes)

\* C5: a store write that raises does not end the loop: the run goes on to
\* its normal end, where every record was attempted, the failed ones are
\* not counted and the client is closed.
C5_WriteFailuresRecovered ==
    failures > 0 =>
        /\ pc \in Programs \cup {"done"}
        /\ pc = "done" =>
              /\ closed
              /\ prog # "process_from_mongo" => todo = 0
              /\ prog = "process_from_mongo" =>
                    updated = Cardinality(written)

\* C6: when ensure_unique_index ran twice in a row (no failed store call),
\* the second run deleted nothing and the unique index on the field is in
\* place.
C6_DedupIdempotent ==
    (eui.again /\ faults = 0) =>
        /\ eui.removed = 0
        /\ "id_post" \in unique_index

\* the second run of two in a row deletes nothing
SecondRunDeletesNothing == (eui.again /\ faults = 0) => eui.removed = 0

(***************************************************************************)
(* Two upsert_records runs against the same collection.  Every call to the *)
(* store is one step.  replace_one(upsert=True) replaces a matching        *)
(* document in one step; when it finds none, the insert is a second step,  *)
(* and only a unique index then rejects a document that another writer     *)
(* inserted in between.                                                    *)
(***************************************************************************)
Procs == {1, 2}

ConcDocs(i) == [_id : {i}, id_post : IdPosts, texte : Textes, ann : {{}}]

ConcStores ==
    UNION {{c \in [1..n -> UNION {ConcDocs(i) : i \in 1..MaxConcInit}] :
               \A i \in 1..n : c[i]._id = i} : n \in 0..MaxConcInit}

ProcStart ==
    [pc |-> "start", by |-> "none", todo |-> 0, dups |-> {},
     pending |-> <<>>, count |-> 0]

InitConc ==
    /\ coll \in ConcStores
    /\ unique_index = {} /\ plain_index = {}
    /\ next_id = Len(coll) + 1
    /\ fromEmpty = (coll = <<>>)
    /\ PipeIdle
    /\ SyncIdle
    /\ FnIdle
    /\ procs = [p \in Procs |-> ProcStart]
    /\ commits = <<>>

\* the `ids[1:]` of every group of the aggregate, as sets of _ids
DuplicateGroups(c, f) ==
    {g \in {{c[i]._id : i \in {j \in Duplicates(c, f) :
                                 Get(c[j], f) = v}} : v \in 1..MaxIdPost} :
        g # {}}

\* lines 85-89 and 56-64: connect and run the aggregate of ensure_unique_index
conc_aggregate(p, b, rows) ==
    /\ procs[p].pc = "start"
    /\ procs' = [procs EXCEPT ![p] =
          [@ EXCEPT !.pc = "dedup", !.by = b, !.todo = rows,
                    !.dups = DuplicateGroups(coll, "id_post")]]
    /\ UNCHANGED <<storeVars, runVars, scanVars, histVars, syncVars,
                   commits, fnVars>>

\* lines 68-74: delete_many for one group of duplicates
conc_delete_many(p, g) ==
    /\ procs[p].pc = "dedup" /\ g \in procs[p].dups
    /\ coll' = Pick(coll, {i \in DOMAIN coll : coll[i]._id \notin g}, 1)
    /\ procs' = [procs EXCEPT ![p] = [@ EXCEPT !.dups = @ \ {g}]]
    /\ UNCHANGED <<unique_index, plain_index, next_id, runVars, scanVars,
                   histVars, syncVars, commits, fnVars>>

\* lines 77-94: create_index(unique) on id_post, which the store refuses
\* while two documents share a value, and the plain index on "text"
conc_create_index(p) ==
    /\ procs[p].pc = "dedup" /\ procs[p].dups = {}
    /\ unique_index' = IF UniqueOk(coll, "id_post")
                       THEN unique_index \cup {"id_post"} ELSE unique_index
    /\ plain_index' = IF procs[p].by # "id_post"
                      THEN plain_index \cup {"text"} ELSE plain_index
    /\ procs' = [procs EXCEPT ![p] = [@ EXCEPT !.pc = "loop"]]
    /\ UNCHANGED <<coll, next_id, runVars, scanVars, histVars, syncVars,
                   commits, fnVars>>

\* line 111, first half: the store looks for a match and replaces it
conc_replace_one(p, r) ==
    /\ procs[p].pc = "loop" /\ procs[p].todo > 0
    /\ LET q == LoaderKey(procs[p].by, r)
           res == ReplaceOne(coll, unique_index, q, r, LoaderAnn, next_id)
       IN  IF Found(coll, q) = {}
           THEN /\ procs' = [procs EXCEPT ![p] =
                       [@ EXCEPT !.pc = "insert", !.pending = <<r>>]]
                /\ UNCHANGED <<coll, commits>>
           ELSE /\ coll' = res.coll
                /\ commits' = IF res.ok THEN Append(commits, [p |-> p, r |-> r])
                              ELSE commits
                /\ procs' = [procs EXCEPT ![p] =
                       [@ EXCEPT !.todo = @ - 1,
                                 !.count = IF res.ok THEN @ + 1 ELSE @]]
    /\ UNCHANGED <<unique_index, plain_index, next_id, runVars, scanVars,
                   histVars, syncVars, fnVars>>

\* line 111, second half: the insert of the upsert; a unique index on the
\* key field makes the store retry the upsert as a replace, any other
\* violated unique index raises E11000, which line 113 catches
conc_insert(p) ==
    /\ procs[p].pc = "insert"
    /\ LET r == procs[p].pending[1]
           q == LoaderKey(procs[p].by, r)
           doc == [_id |-> next_id, id_post |-> r.id_post,
                   texte |-> r.texte, ann |-> LoaderAnn]
           c2 == Append(coll, doc)
           again == ReplaceOne(coll, unique_index, q, r, LoaderAnn, next_id)
           res == IF AllUniqueOk(c2, unique_index)
                  THEN [coll |-> c2, ok |-> TRUE, inserted |-> TRUE]
                  ELSE IF q.f \in unique_index /\ Found(coll, q) # {}
                  THEN again
                  ELSE [coll |-> coll, ok |-> FALSE, inserted |-> FALSE]
       IN  /\ coll' = res.coll
           /\ next_id' = IF res.inserted THEN next_id + 1 ELSE next_id
           /\ commits' = IF res.ok THEN Append(commits, [p |-> p, r |-> r])
                         ELSE commits
           /\ procs' = [procs EXCEPT ![p] =
                  [@ EXCEPT !.pc = "loop", !.pending = <<>>,
                            !.todo = @ - 1,
                            !.count = IF res.ok THEN @ + 1 ELSE @]]
    /\ UNCHANGED <<unique_index, plain_index, runVars, scanVars, histVars,
                   syncVars, fnVars>>

\* lines 116-117
conc_end(p) ==
    /\ procs[p].pc = "loop" /\ procs[p].todo = 0
    /\ procs' = [procs EXCEPT ![p] = [@ EXCEPT !.pc = "end"]]
    /\ UNCHANGED <<storeVars, runVars, scanVars, histVars, syncVars,
                   commits, fnVars>>

NextConc ==
    \/ \E p \in Procs, b \in ByValues, rows \in 0..MaxConcRows :
          conc_aggregate(p, b, rows)
    \/ \E p \in Procs, g \in SUBSET (1..(MaxConcInit + 2 * MaxConcRows)) :
          conc_delete_many(p, g)
    \/ \E p \in Procs : conc_create_index(p)
    \/ \E p \in Procs, r \in LoaderRecords : conc_replace_one(p, r)
    \/ \E p \in Procs : conc_insert(p)
    \/ \E p \in Procs : conc_end(p)

SpecConc == InitConc /\ [][NextConc]_vars

\* the last upsert committed for the key of commits[k]
LastForKey(k, f) ==
    \A j \in (k + 1)..Len(commits) :
        Get(commits[j].r, f) # Get(commits[k].r, f)

\* C7: when two upsert_records runs with the same key field have ended, each
\* having upserted, the unique index is on that key field, and for every
\* key value upserted exactly one document has it, holding the values
\* committed last.
C7_ConcurrentUpserts ==
    (/\ \A p \in Procs : procs[p].pc = "end" /\ procs[p].count > 0
     /\ procs[1].by = procs[2].by) =>
        /\ procs[1].by \in unique_index
        /\ \A k \in DOMAIN commits :
              LastForKey(k, procs[1].by) =>
                  LET q == LoaderKey(procs[1].by, commits[k].r)
                  IN  /\ Cardinality(Found(coll, q)) = 1
                      /\ \A i \in Found(coll, q) :
                            /\ coll[i].id_post = commits[k].r.id_post
                            /\ coll[i].texte = commits[k].r.texte

\* the same, for runs keyed by id_post, the field of the unique index
ConcurrentById ==
    (/\ \A p \in Procs : procs[p].pc = "end"
     /\ procs[1].by = "id_post" /\ procs[2].by = "id_post"
     /\ "id_post" \in unique_index) =>
        \A k \in DOMAIN commits :
            LastForKey(k, "id_post") =>
                LET q == LoaderKey("id_post", commits[k].r)
                IN  /\ Cardinality(Found(coll, q)) = 1
                    /\ \A i \in Found(coll, q) :
                          /\ coll[i].id_post = commits[k].r.id_post
                          /\ coll[i].texte = commits[k].r.texte

(***************************************************************************)
(* mongo_to_es: the bulk sync of the collection into the search index.     *)
(* ChunkSize stands for chunk_size=500, scaled to the stores of the model. *)
(***************************************************************************)
\* process_from_csv line 132 stores int(id_post) for any integer the CSV
\* holds, 0 included
SyncIdPosts == IdPosts \cup {0}

SyncDocs(i) == [_id : {i}, id_post : SyncIdPosts, texte : {"a"},
                ann : {LoaderAnn}]

SyncStores ==
    UNION {{c \in [1..n -> UNION {SyncDocs(i) : i \in 1..MaxSyncDocs}] :
               \A i \in 1..n : c[i]._id = i} : n \in 0..MaxSyncDocs}

InitSync ==
    /\ coll \in SyncStores
    /\ unique_index = {} /\ plain_index = {}
    /\ next_id = Len(coll) + 1
    /\ fromEmpty = (coll = <<>>)
    /\ PipeIdle
    /\ ConcIdle
    /\ FnIdle
    /\ sync_pc = "count" /\ exit_code = NULL
    /\ es_up \in BOOLEAN
    /\ es_index \in BOOLEAN /\ es_docs = {}
    /\ es0 = [index |-> es_index, docs |-> {}]
    /\ rejected \in SUBSET Ids(coll) /\ malformed \in SUBSET Ids(coll)
    /\ rejected \cap malformed = {}
    /\ Cardinality(rejected \cup malformed) <= MaxBad
    /\ pos = 0 /\ n_ok = 0 /\ success = NULL /\ errors = 0 /\ sent = 0
    /\ created = FALSE /\ now = 1

\* line 30: str(doc.get("id_post") or doc.get("_id"))
EsId(doc) ==
    IF doc.id_post # NULL /\ doc.id_post # 0 THEN <<"id_post", doc.id_post>>
    ELSE <<"_id", doc._id>>

\* lines 28-42: the action gen_actions yields for a document; no script
\* stores a `date`, so the date is the time of the run
gen_action(doc, t) ==
    [_id |-> EsId(doc), id_post |-> doc.id_post, texte |-> doc.texte,
     date |-> t]

\* the search index after it indexed the actions acts
EsIndex(docs, acts) ==
    {d \in docs : \A a \in acts : a._id # d._id} \cup acts

\* a script that takes a store without documents for one that has some
no_documents_never(n) == FALSE

\* line 54
no_documents(n) == n = 0

\* a script that does not look at the answer of the ping
es_ping_ignored(up) == TRUE

\* line 61: es.ping() is False when the search index does not answer
es_ping(up) == up

\* sys.exit(code)
Exit(code) == sync_pc' = "exit" /\ exit_code' = code

\* lines 46-58: count_documents raises (exit 1), or counts zero documents
\* (exit 0), or the run goes on
sync_count(ok) ==
    /\ sync_pc = "count"
    /\ ok \/ faults < MaxFaults
    /\ faults' = IF ok THEN faults ELSE faults + 1
    /\ IF ~ok THEN Exit(1)
       ELSE IF no_documents(Len(coll)) THEN Exit(0)
       ELSE sync_pc' = "ping" /\ exit_code' = exit_code
    /\ UNCHANGED <<storeVars, runVars, scanVars, runs, coll0, written,
                   afterClean, cleanScan, lastUp, collPrev, rep, keyIds,
                   keyTextes, keyOther, fromEmpty, eui, es_up, es_index,
                   es_docs, rejected, malformed, pos, n_ok, success, errors,
                   sent, created, now, es0, concVars, fnVars>>

\* lines 61-63
sync_ping ==
    /\ sync_pc = "ping"
    /\ IF es_ping(es_up) THEN sync_pc' = "create" /\ exit_code' = exit_code
       ELSE Exit(1)
    /\ UNCHANGED <<storeVars, runVars, scanVars, histVars, es_up, es_index,
                   es_docs, rejected, malformed, pos, n_ok, success, errors,
                   sent, created, now, es0, concVars, fnVars>>

\* lines 66-69: indices.create, an existing index is ignored (400) and any
\* exception is only a warning
sync_create_index(ok) ==
    /\ sync_pc = "create"
    /\ created' = TRUE
    /\ es_index' = IF ok /\ es_up THEN TRUE ELSE es_index
    /\ sync_pc' = "bulk" /\ pos' = 1 /\ n_ok' = 0
    /\ UNCHANGED <<storeVars, runVars, scanVars, histVars, exit_code, es_up,
                   es_docs, rejected, malformed, success, errors, sent, now,
                   es0, concVars, fnVars>>

\* the documents of the chunk that starts at position p
Chunk(c, p) == {c[i] : i \in {j \in DOMAIN c : j >= p /\ j < p + ChunkSize}}

\* line 72: helpers.bulk with its defaults builds and submits one chunk.
\* An action that cannot be serialized raises while the chunk is built; a
\* chunk the transport cannot deliver raises; a chunk with a rejected
\* action raises BulkIndexError after the other actions were indexed.
\* Lines 76-78 catch all three: "Bulk import failed", exit 1.
sync_bulk_chunk(netOk) ==
    /\ sync_pc = "bulk" /\ pos <= Len(coll)
    /\ netOk \/ faults < MaxFaults
    /\ LET docs == Chunk(coll, pos)
           good == {d \in docs : d._id \notin rejected}
           acts == {gen_action(d, now) : d \in good}
       IN  IF \E d \in docs : d._id \in malformed
           THEN /\ netOk /\ Exit(1)
                /\ UNCHANGED <<es_docs, es_index, sent, pos, n_ok, faults>>
           ELSE IF ~netOk \/ ~es_up
           THEN /\ Exit(1) /\ sent' = sent + 1
                /\ faults' = IF netOk THEN faults ELSE faults + 1
                /\ UNCHANGED <<es_docs, es_index, pos, n_ok>>
           ELSE /\ sent' = sent + 1
                /\ es_docs' = EsIndex(es_docs, acts)
                /\ es_index' = (es_index \/ acts # {})
                /\ n_ok' = n_ok + Cardinality(good)
                /\ IF good # docs THEN Exit(1) /\ pos' = pos
                   ELSE /\ pos' = pos + ChunkSize
                        /\ UNCHANGED <<sync_pc, exit_code>>
                /\ UNCHANGED faults
    /\ UNCHANGED <<storeVars, runVars, scanVars, runs, coll0, written,
                   afterClean, cleanScan, lastUp, collPrev, rep, keyIds,
                   keyTextes, keyOther, fromEmpty, eui, es_up, rejected,
                   malformed, success, errors, created, now, es0, concVars,
                   fnVars>>

\* lines 72-75: helpers.bulk returns (success, []) and the script ends
sync_bulk_done ==
    /\ sync_pc = "bulk" /\ pos > Len(coll)
    /\ success' = n_ok /\ errors' = 0
    /\ Exit(0)
    /\ UNCHANGED <<storeVars, runVars, scanVars, histVars, es_up, es_index,
                   es_docs, rejected, malformed, pos, n_ok, sent, created,
                   now, es0, concVars, fnVars>>

\* the script is run again, later
sync_again ==
    /\ sync_pc = "exit" /\ now < MaxSyncRuns
    /\ sync_pc' = "count" /\ exit_code' = NULL
    /\ now' = now + 1
    /\ es0' = [index |-> es_index, docs |-> es_docs]
    /\ pos' = 0 /\ n_ok' = 0 /\ success' = NULL /\ errors' = 0
    /\ sent' = 0 /\ created' = FALSE
    /\ UNCHANGED <<storeVars, runVars, scanVars, histVars, es_up, es_index,
                   es_docs, rejected, malformed, concVars, fnVars>>

NextSync ==
    \/ \E ok \in BOOLEAN : sync_count(ok)
    \/ sync_ping
    \/ \E ok \in BOOLEAN : sync_create_index(ok)
    \/ \E netOk \in BOOLEAN : sync_bulk_chunk(netOk)
    \/ sync_bulk_done
    \/ sync_again

SpecSync == InitSync /\ [][NextSync]_vars

(***************************************************************************)
(* Properties of the sync.                                                 *)
(***************************************************************************)
ChunkOf(i) == (i - 1) \div ChunkSize

BadIds == rejected \cup malformed

EsUnchanged == es_docs = es0.docs /\ es_index = es0.index

\* C8: in a first sync run with a reachable index and exactly one rejected
\* or malformed document, in a batch that is not the last, the run submits
\* every batch, indexes every document of the other batches and reports the
\* successes together with at least one failure.
C8_PartialBatchFailure ==
    (/\ sync_pc = "exit" /\ es_up /\ faults = 0 /\ now = 1
     /\ Cardinality(BadIds) = 1
     /\ \E i \in DOMAIN coll :
           coll[i]._id \in BadIds /\ ChunkOf(i) < ChunkOf(Len(coll))) =>
        /\ sent = ChunkOf(Len(coll)) + 1
        /\ \A i, j \in DOMAIN coll :
              (coll[j]._id \in BadIds /\ ChunkOf(i) # ChunkOf(j)) =>
                  \E e \in es_docs : e._id = EsId(coll[i])
        /\ success # NULL
        /\ errors >= 1

\* C9 as stated: with an unreachable index no index is created, no bulk
\* request is submitted, and the run exits with a failure, whatever the
\* number of stored documents.
C9_UnreachableAlwaysFatal ==
    ~es_up =>
        /\ ~created /\ sent = 0 /\ EsUnchanged
        /\ sync_pc = "exit" => exit_code = 1

\* C9 amended: with an unreachable index no index is created and no bulk
\* request is submitted; the run exits with a failure whenever the store
\* holds at least one document.
C9_UnreachableFatal ==
    ~es_up =>
        /\ ~created /\ sent = 0 /\ EsUnchanged
        /\ (sync_pc = "exit" /\ coll # <<>>) => exit_code = 1

\* the ping of a run over a non-empty store failed and ended the run
C9_Witness ==
    /\ ~es_up /\ coll # <<>> /\ faults = 0
    /\ sync_pc = "exit" /\ exit_code = 1

\* C10: the sync of a store without documents (that answers the count)
\* exits with 0, submits nothing and leaves the search index as it was.
C10_EmptySourceNoOp ==
    (coll = <<>> /\ faults = 0) =>
        /\ ~created /\ sent = 0 /\ EsUnchanged
        /\ sync_pc = "exit" => exit_code = 0

\* a run over an empty store has ended
C10_Witness ==
    coll = <<>> /\ faults = 0 /\ sync_pc = "exit" /\ exit_code = 0


-----------------------------------------------------------------------------
\* Re-running the index sync

\* the index ids the stored documents map to
StoreEsIds == {EsId(coll[i]) : i \in 1..Len(coll)}

\* the earlier run and this one both indexed every stored document
BothRunsComplete ==
    /\ now = 2 /\ sync_pc = "exit" /\ exit_code = 0 /\ sent > 0
    /\ BadIds = {} /\ coll # <<>>
    /\ {e._id : e \in es0.docs} = StoreEsIds

\* C11: when the sync script is run again over an unchanged store, the
\* search index holds the same documents as after the earlier run: the same
\* ids and the same source fields, the date among them.
C11_SyncIdempotent == BothRunsComplete => es_docs = es0.docs

\* the second run leaves the set of index ids as it was
SyncAgainSameIds ==
    BothRunsComplete => {e._id : e \in es_docs} = {e._id : e \in es0.docs}

-----------------------------------------------------------------------------
\* The annotation functions, called on their own.  No store is involved.

otherVars == <<storeVars, runVars, scanVars, histVars, syncVars, concVars>>

NoStore ==
    /\ coll = <<>> /\ unique_index = {} /\ plain_index = {} /\ next_id = 1
    /\ fromEmpty = TRUE
    /\ PipeIdle /\ SyncIdle /\ ConcIdle

\* the function under call returns the value v
Return(v) == ret' = v /\ fpc' = "done" /\ UNCHANGED <<arg, otherVars>>

-----------------------------------------------------------------------------
\* Label thresholds.  A compound score is a number of ten-thousandths: VADER
\* rounds it to four decimals, so 0.05 is 500.

MaxCompound == 10000

Threshold == 500

Compounds == (0 - MaxCompound)..MaxCompound

vader_label_strict(comp) ==
    IF comp > Threshold THEN "positive"
    ELSE IF comp < 0 - Threshold THEN "negative"
    ELSE "neutral"

\* nlp_pipeline.py lines 84-90
vader_label(comp) ==
    IF comp >= Threshold THEN "positive"
    ELSE IF comp <= 0 - Threshold THEN "negative"
    ELSE "neutral"

\* load_to_mongo.py lines 45-51
analyze_text_label(comp) ==
    IF comp >= Threshold THEN "positive"
    ELSE IF comp <= 0 - Threshold THEN "negative"
    ELSE "neutral"

InitLabel ==
    /\ NoStore
    /\ arg \in Compounds /\ ret = <<>> /\ fpc = "label"

\* both implementations label the compound score arg
label_call ==
    /\ fpc = "label"
    /\ Return([vader |-> vader_label(arg),
               loader |-> analyze_text_label(arg)])

NextLabel == label_call

SpecLabel == InitLabel /\ [][NextLabel]_vars

\* C12: for every compound score the label is "positive" exactly when the
\* score is at least 0.05, "negative" exactly when it is at most -0.05 and
\* "neutral" otherwise, and load_to_mongo.analyze_text gives the label
\* sentiment_vader gives.
C12_LabelThresholds ==
    (fpc = "done" /\ arg \in Compounds) =>
        /\ (ret.vader = "positive") <=> (arg >= 500)
        /\ (ret.vader = "negative") <=> (arg <= -500)
        /\ (ret.vader = "neutral") <=> (-500 < arg /\ arg < 500)
        /\ ret.loader = ret.vader

\* the score exactly 0.05 was labelled
C12_Witness ==
    /\ fpc = "done" /\ arg = 500
    /\ ret = [vader |-> "positive", loader |-> "positive"]

-----------------------------------------------------------------------------
\* Texts.  A text is None or a string; a string is a sequence of atoms: the
\* whitespace characters, punctuation characters, and words without either.

Whitespace == {" ", "\t", "\n", "\f"}

Punctuation == {"!", "(", ")"}

Words == {"Good", "good", "bad", "ok"}

None == [none |-> TRUE, s |-> <<>>]

Str(s) == [none |-> FALSE, s |-> s]

RECURSIVE lstrip(_, _)
lstrip(s, chars) ==
    IF s # <<>> /\ Head(s) \in chars THEN lstrip(Tail(s), chars) ELSE s

RECURSIVE rstrip(_, _)
rstrip(s, chars) ==
    IF s # <<>> /\ s[Len(s)] \in chars
    THEN rstrip(SubSeq(s, 1, Len(s) - 1), chars)
    ELSE s

\* str.strip(), and str.strip(chars)
strip(s, chars) == lstrip(rstrip(s, chars), chars)

BlankNoStrip(text) == text.none \/ text.s = <<>>

\* `not text or not str(text).strip()`
Blank(text) == text.none \/ text.s = <<>> \/ strip(text.s, Whitespace) = <<>>

\* str.split(): the maximal runs of atoms that are not whitespace
RECURSIVE split(_, _, _)
split(s, cur, acc) ==
    IF s = <<>> THEN (IF cur = <<>> THEN acc ELSE Append(acc, cur))
    ELSE IF Head(s) \in Whitespace
    THEN split(Tail(s), <<>>, IF cur = <<>> THEN acc ELSE Append(acc, cur))
    ELSE split(Tail(s), Append(cur, Head(s)), acc)

\* str.lower()
lower(t) == [i \in 1..Len(t) |-> IF t[i] = "Good" THEN "good" ELSE t[i]]

\* the neutral scores of lines 81 and 41, in ten-thousandths
NeutralScores == [neg |-> 0, neu |-> 10000, pos |-> 0, compound |-> 0]

\* what the scorer may return for a text that is not blank
ScorerOutputs ==
    {[neg |-> 0, neu |-> 2000, pos |-> 8000, compound |-> 6000],
     [neg |-> 7000, neu |-> 3000, pos |-> 0, compound |-> -500],
     [neg |-> 1000, neu |-> 8000, pos |-> 1000, compound |-> 0]}

\* what the detector may do: it is not installed, it raises, it answers
DetectOutcomes == {"absent", "raise", "en"}

\* a lexicon maps words to polarity values, in tenths
Lexicons ==
    {("good" :> 19) @@ ("bad" :> -25),
     ("good" :> 25) @@ ("bad" :> -25) @@ ("ok" :> 12)}

\* line 99: `tt in lex`, for the cleaned token tt
InLexicon(tt, lex) == Len(tt) = 1 /\ tt[1] \in DOMAIN lex

\* lines 96-100: the (token, value) pairs of the tokens the lexicon holds, in
\* their order of occurrence
RECURSIVE token_vals(_, _)
token_vals(toks, lex) ==
    IF toks = <<>> THEN <<>>
    ELSE LET tt == strip(lower(Head(toks)), Punctuation)
         IN  (IF InLexicon(tt, lex)
              THEN <<[token |-> tt[1], value |-> lex[tt[1]]]>>
              ELSE <<>>) \o token_vals(Tail(toks), lex)

Abs(v) == IF v < 0 THEN 0 - v ELSE v

key_signed(x) == 0 - x.value

\* line 101: key=lambda x: -abs(x[1])
key(x) == 0 - Abs(x.value)

\* x placed behind every element whose key is not greater
RECURSIVE insert(_, _)
insert(x, s) ==
    IF s = <<>> THEN <<x>>
    ELSE IF key(Head(s)) <= key(x) THEN <<Head(s)>> \o insert(x, Tail(s))
    ELSE <<x>> \o s

\* sorted(s, key=key): ascending by key, equal keys in their order in s
RECURSIVE sorted(_)
sorted(s) ==
    IF s = <<>> THEN <<>>
    ELSE insert(s[Len(s)], sorted(SubSeq(s, 1, Len(s) - 1)))

TopTokens == 8

\* nlp_pipeline.py lines 66-76; det is what the detector does when called
detect_language(text, det) ==
    IF det = "absent" THEN [language |-> "unknown", detected |-> FALSE]
    ELSE IF Blank(text) THEN [language |-> "unknown", detected |-> FALSE]
    ELSE [language |-> IF det = "raise" THEN "unknown" ELSE det,
          detected |-> TRUE]

\* nlp_pipeline.py lines 79-106; sc is what the scorer returns when called
sentiment_vader(text, sc, lex) ==
    IF Blank(text)
    THEN [label |-> "neutral", scores |-> NeutralScores, tokens |-> <<>>,
          scored |-> FALSE]
    ELSE LET tv == sorted(token_vals(split(text.s, <<>>, <<>>), lex))
         IN  [label |-> vader_label(sc.compound), scores |-> sc,
              tokens |-> SubSeq(tv, 1, Min2(TopTokens, Len(tv))),
              scored |-> TRUE]

\* load_to_mongo.py lines 33-52
analyze_text(text, det, sc) ==
    LET called == ~text.none /\ text.s # <<>>
                      /\ strip(text.s, Whitespace) # <<>>
        lang == IF called THEN (IF det = "raise" THEN "unknown" ELSE det)
                ELSE "unknown"
    IN  IF Blank(text)
        THEN [language |-> lang, sentiment |-> "neutral",
              scores |-> NeutralScores, detected |-> called,
              scored |-> FALSE]
        ELSE [language |-> lang,
              sentiment |-> analyze_text_label(sc.compound),
              scores |-> sc, detected |-> called, scored |-> TRUE]

-----------------------------------------------------------------------------
\* The annotation functions on short texts, the blank ones among them

MaxShortLen == 3

SeqsUpTo(S, n) == UNION {[1..k -> S] : k \in 0..n}

ShortTexts ==
    {None} \cup {Str(s) : s \in SeqsUpTo({" ", "\t", "bad", "!"},
                                         MaxShortLen)}

\* load_to_mongo.py imports the detector unconditionally (line 6)
Calls ==
    {c \in [fn : {"detect_language", "sentiment_vader", "analyze_text"},
            det : DetectOutcomes] :
        c.fn = "analyze_text" => c.det # "absent"}

InitBlank ==
    /\ NoStore
    /\ \E c \in Calls, t \in ShortTexts, sc \in ScorerOutputs,
          lex \in Lexicons :
          /\ arg = [fn |-> c.fn, text |-> t, det |-> c.det, sc |-> sc,
                    lex |-> lex]
          /\ fpc = c.fn
    /\ ret = <<>>

detect_language_call ==
    /\ fpc = "detect_language"
    /\ Return(detect_language(arg.text, arg.det))

sentiment_vader_call ==
    /\ fpc = "sentiment_vader"
    /\ Return(sentiment_vader(arg.text, arg.sc, arg.lex))

analyze_text_call ==
    /\ fpc = "analyze_text"
    /\ Return(analyze_text(arg.text, arg.det, arg.sc))

NextBlank ==
    \/ detect_language_call
    \/ sentiment_vader_call
    \/ analyze_text_call

SpecBlank == InitBlank /\ [][NextBlank]_vars

\* the text is None, empty, or made of whitespace only
IsBlankText(t) == t.none \/ \A i \in 1..Len(t.s) : t.s[i] \in {" ", "\t"}

\* C13: for a text that is None, empty or whitespace only, detect_language
\* returns "unknown" and sentiment_vader returns "neutral", the scores
\* neg 0.0, neu 1.0, pos 0.0, compound 0.0 and no tokens; analyze_text
\* returns the same language, label and scores; neither the detector nor the
\* scorer is called.
C13_BlankDefault ==
    (fpc = "done" /\ IsBlankText(arg.text)) =>
        /\ arg.fn = "detect_language" =>
               ret.language = "unknown" /\ ~ret.detected
        /\ arg.fn = "sentiment_vader" =>
               /\ ret.label = "neutral" /\ ret.tokens = <<>>
               /\ ret.scores = [neg |-> 0, neu |-> 10000, pos |-> 0,
                                compound |-> 0]
               /\ ~ret.scored
        /\ arg.fn = "analyze_text" =>
               /\ ret.language = "unknown" /\ ret.sentiment = "neutral"
               /\ ret.scores = [neg |-> 0, neu |-> 10000, pos |-> 0,
                                compound |-> 0]
               /\ ~ret.detected /\ ~ret.scored

\* sentiment_vader returned for a text of whitespace, with a scorer that
\* would have answered otherwise
C13_Witness ==
    /\ fpc = "done" /\ arg.fn = "sentiment_vader"
    /\ arg.text = [none |-> FALSE, s |-> <<" ", "\t">>]
    /\ arg.sc.compound = 6000
    /\ ret.label = "neutral"

\* a text that is not blank reaches the detector and the scorer
NotBlankCalls ==
    (fpc = "done" /\ ~IsBlankText(arg.text)) =>
        /\ arg.fn = "sentiment_vader" => ret.scored /\ ret.scores = arg.sc
        /\ arg.fn = "analyze_text" => ret.scored /\ ret.detected
        /\ (arg.fn = "detect_language" /\ arg.det # "absent") =>
               ret.detected

-----------------------------------------------------------------------------
\* sentiment_vader on texts of up to MaxTokens tokens, one space between them

MaxTokens == 9

RawTokens == {<<"Good", "!">>, <<"bad">>, <<"(", "ok", ")">>}

RECURSIVE Spaced(_)
Spaced(ts) ==
    IF ts = <<>> THEN <<>>
    ELSE IF Len(ts) = 1 THEN ts[1]
    ELSE ts[1] \o <<" ">> \o Spaced(Tail(ts))

InitTokens ==
    /\ NoStore
    /\ \E k \in 0..MaxTokens : \E ts \in [1..k -> RawTokens],
          lex \in Lexicons, sc \in {o \in ScorerOutputs : o.compound = 0} :
          arg = [fn |-> "sentiment_vader", text |-> Str(Spaced(ts)),
                 det |-> "en", sc |-> sc, lex |-> lex]
    /\ fpc = "sentiment_vader"
    /\ ret = <<>>

NextTokens == sentiment_vader_call

SpecTokens == InitTokens /\ [][NextTokens]_vars

\* the tokens of the text that are lexicon keys once in lower case and rid of
\* surrounding punctuation, with their values, in order of occurrence
TokenMatches == token_vals(split(arg.text.s, <<>>, <<>>), arg.lex)

Magnitude(e) == IF e.value < 0 THEN 0 - e.value ELSE e.value

\* how many matches come before the i-th one in the full ordering: those of
\* greater magnitude, and those of equal magnitude that occur earlier
Rank(m, i) ==
    Cardinality({j \in 1..Len(m) :
        \/ Magnitude(m[j]) > Magnitude(m[i])
        \/ Magnitude(m[j]) = Magnitude(m[i]) /\ j < i})

\* C14: the token list sentiment_vader returns has at most 8 entries, each a
\* cleaned token that is a lexicon key, with its lexicon value, one per
\* occurrence; it is ordered by non-increasing absolute value, entries of
\* equal absolute value in their order of occurrence; of more than 8 matches
\* the first 8 of that ordering are kept.
C14_TokenRanking ==
    (fpc = "done" /\ arg.fn = "sentiment_vader" /\ ret.scored) =>
        LET m == TokenMatches
            out == ret.tokens
        IN  /\ Len(out) <= 8
            /\ Len(out) = IF Len(m) > 8 THEN 8 ELSE Len(m)
            /\ \A k \in 1..Len(out) :
                   /\ out[k].token \in DOMAIN arg.lex
                   /\ out[k].value = arg.lex[out[k].token]
            /\ \A k \in 1..(Len(out) - 1) :
                   Magnitude(out[k]) >= Magnitude(out[k + 1])
            /\ \A i \in 1..Len(m) :
                   Rank(m, i) < 8 => out[Rank(m, i) + 1] = m[i]

\* more than 8 tokens matched and the ninth was cut; entries of equal
\* magnitude and opposite sign were returned in both orders
C14_Witness ==
    /\ fpc = "done" /\ arg.fn = "sentiment_vader" /\ ret.scored
    /\ Len(TokenMatches) > 8 /\ Len(ret.tokens) = 8
    /\ \E k \in 1..7 :
           /\ ret.tokens[k].value = -25 /\ ret.tokens[k + 1].value = 25
    /\ \E k \in 1..7 :
           /\ ret.tokens[k].value = 25 /\ ret.tokens[k + 1].value = -25
    /\ TokenMatches[9].token = "good"

-----------------------------------------------------------------------------
\* preprocess.py: clean_text.  The atoms of a text are here the URL prefixes
\* "http://" and "www.", "@", ".", a character "x" that is none of these,
\* and the whitespace characters; "\f" is whitespace that _ctrl_re leaves.

UrlPrefixes == {"http://", "www."}

\* line 33: [\r\n\t]
Ctrl == {"\t", "\n"}

\* the end of the run of \S atoms that s begins with
RunEnd(s) ==
    CHOOSE e \in 0..Len(s) :
        /\ \A k \in 1..e : s[k] \notin Whitespace
        /\ e = Len(s) \/ s[e + 1] \in Whitespace

\* line 31: https?://\S+|www\.\S+ matches at the head of s
UrlAt(s) == Len(s) >= 2 /\ s[1] \in UrlPrefixes /\ s[2] \notin Whitespace

\* line 32: \S+@\S+\.\S+ matches at the head of s.  The dot is the atom "."
\* behind at least one atom, or the dot that ends "www."
EmailAt(s) ==
    LET e == RunEnd(s)
    IN  \E a \in 2..e : /\ s[a] = "@"
                        /\ \E d \in (a + 1)..(e - 1) :
                               \/ s[d] = "." /\ d >= a + 2
                               \/ s[d] = "www."

\* re.sub(" ", s) for a pattern whose matches run to the end of the \S run
RECURSIVE sub_url(_)
sub_url(s) ==
    IF s = <<>> THEN <<>>
    ELSE IF UrlAt(s)
    THEN <<" ">> \o sub_url(SubSeq(s, RunEnd(s) + 1, Len(s)))
    ELSE <<Head(s)>> \o sub_url(Tail(s))

RECURSIVE sub_email(_)
sub_email(s) ==
    IF s = <<>> THEN <<>>
    ELSE IF Head(s) \notin Whitespace /\ EmailAt(s)
    THEN <<" ">> \o sub_email(SubSeq(s, RunEnd(s) + 1, Len(s)))
    ELSE <<Head(s)>> \o sub_email(Tail(s))

\* the length of the run of atoms of the class that s begins with
RECURSIVE RunOf(_, _)
RunOf(s, class) ==
    IF s # <<>> /\ Head(s) \in class THEN 1 + RunOf(Tail(s), class) ELSE 0

\* line 42: every run of \r \n \t becomes one space
RECURSIVE sub_ctrl(_)
sub_ctrl(s) ==
    IF s = <<>> THEN <<>>
    ELSE IF Head(s) \in Ctrl
    THEN <<" ">> \o sub_ctrl(SubSeq(s, RunOf(s, Ctrl) + 1, Len(s)))
    ELSE <<Head(s)>> \o sub_ctrl(Tail(s))

\* line 43: every run of two or more whitespace atoms becomes one space
RECURSIVE sub_multi_space(_)
sub_multi_space(s) ==
    IF s = <<>> THEN <<>>
    ELSE IF RunOf(s, Whitespace) >= 2
    THEN <<" ">> \o sub_multi_space(SubSeq(s, RunOf(s, Whitespace) + 1,
                                           Len(s)))
    ELSE <<Head(s)>> \o sub_multi_space(Tail(s))

clean_text_strip_first(t) ==
    IF t.none THEN Str(<<>>)
    ELSE Str(sub_multi_space(sub_ctrl(sub_email(sub_url(
             strip(t.s, Whitespace))))))

\* lines 36-44
clean_text(t) ==
    IF t.none THEN Str(<<>>)
    ELSE Str(strip(sub_multi_space(sub_ctrl(sub_email(sub_url(t.s)))),
                   Whitespace))

MaxCleanLen == 5

CleanAtoms == UrlPrefixes \cup {"@", ".", "x"} \cup Whitespace

MaxAround == 2

Address == <<"x", "@", "x", ".", "x">>

CleanCall(t) == [fn |-> "clean_text", text |-> t]

\* the text is None, a short text, or a text that holds an e-mail address
InitClean ==
    /\ NoStore
    /\ \/ arg = CleanCall(None)
       \/ \E k \in 0..MaxCleanLen : \E s \in [1..k -> CleanAtoms] :
              arg = CleanCall(Str(s))
       \/ \E k, l \in 0..MaxAround :
              \E s \in [1..k -> CleanAtoms], t \in [1..l -> CleanAtoms] :
                  arg = CleanCall(Str(s \o Address \o t))
    /\ fpc = "clean_text"
    /\ ret = <<>>

\* clean_text is applied to the text, then to what it returned
clean_text_call ==
    /\ fpc = "clean_text" /\ Len(ret) < 2
    /\ ret' = Append(ret, clean_text(IF ret = <<>> THEN arg.text
                                     ELSE ret[Len(ret)]))
    /\ fpc' = IF Len(ret) = 1 THEN "done" ELSE fpc
    /\ UNCHANGED <<arg, otherVars>>

NextClean == clean_text_call

SpecClean == InitClean /\ [][NextClean]_vars

\* C15: clean_text applied to its own output returns that output, and the
\* output holds nothing a second pass would remove or collapse: no URL, no
\* e-mail address, no \r \n \t, no run of whitespace, no whitespace at
\* either end.
C15_CleanIdempotent ==
    (fpc = "done" /\ arg.fn = "clean_text") =>
        LET out == ret[1].s
        IN  /\ ret[2] = ret[1]
            /\ sub_url(out) = out /\ sub_email(out) = out
            /\ sub_ctrl(out) = out /\ sub_multi_space(out) = out
            /\ strip(out, {" ", "\t", "\n", "\f"}) = out

\* a text with a URL right behind an e-mail address was cleaned twice, and
\* so was one with a URL and whitespace of three kinds
C15_Witness ==
    /\ fpc = "done" /\ arg.fn = "clean_text"
    /\ \/ /\ arg.text.s = <<"x", " ", "x", "@", "x", ".", "x", "http://",
                             "x">>
          /\ ret[1].s = <<"x">>
       \/ /\ arg.text.s = <<"x", "\f", "\t", "www.", "x">>
          /\ ret[1].s = <<"x">>

-----------------------------------------------------------------------------
\* preprocess.py: the frame and its drop_duplicates

MaxFrame == 5

CanonicalTextes == {"", "a", "b"}

\* line 29: id_post is the row's position, counted from 1
Frame(ts) == [i \in 1..Len(ts) |-> [id_post |-> i, texte |-> ts[i]]]

Frames == {Frame(ts) : ts \in SeqsUpTo(CanonicalTextes, MaxFrame)}

RECURSIVE keep_last(_)
keep_last(df) ==
    IF df = <<>> THEN <<>>
    ELSE IF \E j \in 2..Len(df) : df[j].texte = df[1].texte
    THEN keep_last(Tail(df))
    ELSE <<Head(df)>> \o keep_last(Tail(df))

drop_duplicates_keep_last(df, seen) == keep_last(df)

\* line 55: drop_duplicates(subset=["texte"], keep="first"); seen holds the
\* textes of the rows gone by
RECURSIVE drop_duplicates(_, _)
drop_duplicates(df, seen) ==
    IF df = <<>> THEN <<>>
    ELSE IF Head(df).texte \in seen THEN drop_duplicates(Tail(df), seen)
    ELSE <<Head(df)>>
             \o drop_duplicates(Tail(df), seen \cup {Head(df).texte})

InitDedup ==
    /\ NoStore
    /\ arg \in [fn : {"drop_duplicates"}, df : Frames]
    /\ fpc = "drop_duplicates"
    /\ ret = <<>>

\* the frame is deduplicated, then what came out is
drop_duplicates_call ==
    /\ fpc = "drop_duplicates" /\ Len(ret) < 2
    /\ ret' = Append(ret, drop_duplicates(IF ret = <<>> THEN arg.df
                                          ELSE ret[Len(ret)], {}))
    /\ fpc' = IF Len(ret) = 1 THEN "done" ELSE fpc
    /\ UNCHANGED <<arg, otherVars>>

NextDedup == drop_duplicates_call

SpecDedup == InitDedup /\ [][NextDedup]_vars

\* the positions of the rows whose texte no earlier row has
FirstOccurrences(df) ==
    {i \in 1..Len(df) : \A j \in 1..(i - 1) : df[j].texte # df[i].texte}

\* C16: deduplication returns the first row of each distinct texte, in the
\* order of the input, and nothing else; deduplicating what it returned
\* changes nothing.
C16_DedupKeepsFirst ==
    (fpc = "done" /\ arg.fn = "drop_duplicates") =>
        LET df == arg.df
            out == ret[1]
            first == FirstOccurrences(df)
        IN  /\ Len(out) = Cardinality(first)
            /\ \A i \in first :
                   out[Cardinality({j \in first : j <= i})] = df[i]
            /\ ret[2] = ret[1]

\* a frame whose first texte comes back after another one was deduplicated
C16_Witness ==
    /\ fpc = "done" /\ arg.fn = "drop_duplicates"
    /\ Len(arg.df) = 5
    /\ arg.df[1].texte = "a" /\ arg.df[2].texte = "b"
    /\ arg.df[3].texte = "a" /\ arg.df[5].texte = "b"
    /\ Len(ret[1]) = 3 /\ ret[1][1].id_post = 1 /\ ret[1][2].id_post = 2

-----------------------------------------------------------------------------
\* load_to_mongo.py: ensure_unique_index called on a store, on its own

MaxEuiDocs == 3

EuiDocs(i) == [_id : {i}, id_post : IdPosts, texte : Textes,
               ann : {LoaderAnn}]

EuiStores ==
    UNION {{c \in [1..n -> UNION {EuiDocs(i) : i \in 1..MaxEuiDocs}] :
               \A i \in 1..n : c[i]._id = i} : n \in 0..MaxEuiDocs}

InitEui ==
    /\ coll \in EuiStores
    /\ unique_index = {} /\ plain_index = {}
    /\ next_id = Len(coll) + 1
    /\ fromEmpty = (coll = <<>>)
    /\ PipeIdle /\ SyncIdle /\ ConcIdle
    /\ arg \in [fn : {"ensure_unique_index"}, coll : {coll},
                field : {"id_post"}, aggOk : BOOLEAN]
    /\ fpc = "ensure_unique_index"
    /\ ret = <<>>

\* line 89: ensure_unique_index(coll, "id_post"), the only call
ensure_unique_index_call ==
    /\ fpc = "ensure_unique_index"
    /\ LET e == ensure_unique_index(coll, unique_index, arg.field, arg.aggOk)
       IN  /\ coll' = e.coll
           /\ unique_index' = e.uidx
           /\ ret' = [removed |-> e.removed]
    /\ fpc' = "done"
    /\ UNCHANGED <<plain_index, next_id, runVars, scanVars, histVars,
                   syncVars, concVars, arg>>

NextEui == ensure_unique_index_call

SpecEui == InitEui /\ [][NextEui]_vars

\* the documents of a store
DocsOf(c) == {c[i] : i \in 1..Len(c)}

\* after ensure_unique_index(coll, "id_post"): of the documents that shared
\* an id_post exactly the one inserted first is left, and every document
\* whose id_post was unique, null or absent is left as it was
KeepsEarliest ==
    (fpc = "done" /\ arg.fn = "ensure_unique_index" /\ arg.aggOk) =>
        LET before == DocsOf(arg.coll)
            after == DocsOf(coll)
        IN  /\ after \subseteq before
            /\ \A d \in before :
                   d \in after <=>
                       \/ d.id_post = NULL
                       \/ \A o \in before :
                              o.id_post = d.id_post => d._id <= o._id

\* C17: after ensure_unique_index(coll, "id_post"), of the documents that
\* shared a non-null id_post exactly the earliest inserted is left, the
\* documents whose id_post was unique, null or absent are neither deleted
\* nor modified, and the unique index on id_post is in place.
C17_DedupCleanup ==
    (fpc = "done" /\ arg.fn = "ensure_unique_index" /\ arg.aggOk) =>
        /\ KeepsEarliest
        /\ "id_post" \in unique_index

-----------------------------------------------------------------------------
\* The ids of the index documents

\* a first sync run went through, nothing failing
FirstSyncComplete ==
    /\ now = 1 /\ sync_pc = "exit" /\ exit_code = 0 /\ sent > 0
    /\ BadIds = {}

\* no two stored documents have the same id_post
DistinctIdentities ==
    \A i, j \in 1..Len(coll) :
        (i # j /\ coll[i].id_post # NULL) =>
            coll[i].id_post # coll[j].id_post

\* C18: the id of an index document is the string of the id_post of its
\* stored document whenever that has an id_post, 0 included, and the
\* store's _id only when it has none; after a sync in which nothing failed
\* the index holds one document per stored document when the stored
\* documents have distinct identities.
C18_IndexKey ==
    /\ \A e \in es_docs :
           IF e.id_post # NULL THEN e._id = <<"id_post", e.id_post>>
           ELSE e._id[1] = "_id"
    /\ (FirstSyncComplete /\ DistinctIdentities) =>
           Cardinality(es_docs) = Len(coll)

\* the same, for the stored documents whose id_post is not 0
IndexKeyNonZero ==
    /\ \A e \in es_docs :
           IF e.id_post \notin {NULL, 0} THEN e._id = <<"id_post", e.id_post>>
           ELSE e._id[1] = "_id"
    /\ (FirstSyncComplete /\ DistinctIdentities) =>
           Cardinality(es_docs) = Len(coll)

-----------------------------------------------------------------------------
\* process_from_mongo while a loader (process 1) runs ensure_unique_index.
\* The scan's read of a document and its update_one are separate steps; the
\* cursor is the _id of the document read last.

MaxDelDocs == 3

DelDocs(i) == [_id : {i}, id_post : IdPosts, texte : {"a"},
               ann : {{}, LoaderAnn}]

DelStores ==
    UNION {{c \in [1..n -> UNION {DelDocs(i) : i \in 1..MaxDelDocs}] :
               \A i \in 1..n : c[i]._id = i} : n \in 0..MaxDelDocs}

InitDel ==
    /\ coll \in DelStores
    /\ unique_index = {} /\ plain_index = {}
    /\ next_id = Len(coll) + 1
    /\ fromEmpty = (coll = <<>>)
    /\ PipeIdle /\ SyncIdle /\ FnIdle
    /\ procs = [p \in Procs |-> ProcStart]
    /\ commits = <<>>

\* the documents the cursor has not returned yet
Ahead(c, cur) == {i \in DOMAIN c : c[i]._id > cur}

\* lines 159-165: connect, open the cursor, zero the counters
scan_begin(fc) ==
    /\ pc = "idle"
    /\ pc' = "process_from_mongo" /\ prog' = "process_from_mongo"
    /\ force' = fc /\ sample' = 0
    /\ cursor' = 0 /\ total' = 0 /\ updated' = 0 /\ fetched' = <<>>
    /\ runs' = runs + 1 /\ coll0' = coll /\ written' = {}
    /\ UNCHANGED <<storeVars, by, todo, count, failures, closed, faults,
                   afterClean, cleanScan, lastUp, collPrev, rep, keyIds,
                   keyTextes, keyOther, fromEmpty, eui, syncVars, concVars,
                   fnVars>>

\* lines 166-175: the cursor returns the next document; it is skipped when
\* it needs no annotation
scan_fetch ==
    /\ pc = "process_from_mongo" /\ fetched = <<>>
    /\ Ahead(coll, cursor) # {}
    /\ LET doc == coll[SetMin(Ahead(coll, cursor))]
       IN  /\ cursor' = doc._id
           /\ total' = total + 1
           /\ fetched' = IF need(force, doc) THEN <<doc>> ELSE <<>>
    /\ UNCHANGED <<storeVars, runVars, force, sample, updated, histVars,
                   syncVars, concVars, fnVars>>

\* lines 176-186: update_one on the _id of the document read.  It raises
\* only if the call fails (wOk = FALSE); a filter that matches no document
\* is no error, and `updated += 1` follows either way
scan_update(wOk) ==
    /\ pc = "process_from_mongo" /\ fetched # <<>>
    /\ wOk \/ faults < MaxFaults
    /\ LET id == fetched[1]._id
           hit == id \in Ids(coll)
       IN  /\ coll' = IF wOk THEN UpdateOne(coll, id) ELSE coll
           /\ written' = IF wOk /\ hit THEN written \cup {id} ELSE written
           /\ updated' = IF wOk THEN updated + 1 ELSE updated
           /\ failures' = IF wOk THEN failures ELSE failures + 1
           /\ faults' = IF wOk THEN faults ELSE faults + 1
    /\ fetched' = <<>>
    /\ UNCHANGED <<unique_index, plain_index, next_id, pc, prog, by, todo,
                   count, closed, force, sample, cursor, total, runs, coll0,
                   afterClean, cleanScan, lastUp, collPrev, rep, keyIds,
                   keyTextes, keyOther, fromEmpty, eui, syncVars, concVars,
                   fnVars>>

\* lines 188-190: the cursor is exhausted
scan_end ==
    /\ pc = "process_from_mongo" /\ fetched = <<>>
    /\ Ahead(coll, cursor) = {}
    /\ pc' = "done" /\ closed' = TRUE
    /\ UNCHANGED <<storeVars, prog, by, todo, count, failures, scanVars,
                   histVars, syncVars, concVars, fnVars>>

NextDel ==
    \/ \E fc \in BOOLEAN : scan_begin(fc)
    \/ scan_fetch
    \/ \E wOk \in BOOLEAN : scan_update(wOk)
    \/ scan_end
    \/ \E b \in ByValues : conc_aggregate(1, b, 0)
    \/ \E g \in SUBSET (1..MaxDelDocs) : conc_delete_many(1, g)
    \/ conc_create_index(1)
    \/ conc_end(1)

SpecDel == InitDel /\ [][NextDel]_vars

\* C19: when a document is deleted by another process between the scan's
\* read of it and its update_one, the scan goes on to its end and the
\* `updated` it returns is the number of stored documents it wrote
\* annotation fields to.
C19_ScanUnderDeletion ==
    (ScanDone /\ faults = 0) => updated = Cardinality(written)

\* the same for the scans no deletion ran into
ScanCountsWrites ==
    (ScanDone /\ faults = 0 /\ procs[1].pc = "start") =>
        updated = Cardinality(written)

-----------------------------------------------------------------------------
\* The annotation fields of the stored documents

\* C20: after any sequence of loader upserts, CSV upserts and non-forced
\* scans that ends with a complete non-forced scan, every stored document
\* has the four annotation fields language, sentiment, sentiment_scores and
\* sentiment_tokens.
C20_FullAnnotation ==
    (ScanDone /\ ~force /\ sample = 0 /\ failures = 0 /\ faults = 0) =>
        \A i \in 1..Len(coll) :
            {"language", "sentiment", "sentiment_scores",
             "sentiment_tokens"} \subseteq coll[i].ann

\* the same for the documents the loader did not write: those that lacked
\* language or sentiment when the scan began have all four fields
ScanCompletesLacking ==
    (ScanDone /\ ~force /\ sample = 0 /\ failures = 0 /\ faults = 0) =>
        \A i \in 1..Len(coll) :
            coll[i]._id \in LackingIds(coll0) =>
                {"language", "sentiment", "sentiment_scores",
                 "sentiment_tokens"} \subseteq coll[i].ann
=============================================================================
